---- MODULE Spec2Model ----
(***************************************************************************)
(* Model of src/src/rest.cpp: the REST gateway of the node.                *)
(*                                                                         *)
(* std::string values that carry text (URIs, path segments, hex text of a  *)
(* hash) are TLA+ strings.  The request body (strRequest) is a sequence of *)
(* byte values 0..255, because a binary body is not text.  A uint256 is    *)
(* the lowercase hex text of its value without leading zeros, so that two  *)
(* uint256 are equal exactly when their values are.                        *)
(***************************************************************************)
EXTENDS Integers, Sequences, FiniteSets, TLC

\* ------------------------------------------------------------------ bounds

\* Longest outpoint list that is enumerated in full on the URI channel.
MaxUriOutpoints == 2
\* How far above MAX_GETUTXOS_OUTPOINTS the long repeated queries go.
MaxOver == 1
\* Highest block height the active chain grows to.
MaxHeight == 1

\* --------------------------------------------------------------- constants

MAX_GETUTXOS_OUTPOINTS == 15

MEMPOOL_HEIGHT == 2147483647

HTTP_OK == 200
HTTP_BAD_REQUEST == 400
HTTP_NOT_FOUND == 404
HTTP_INTERNAL_SERVER_ERROR == 500
HTTP_SERVICE_UNAVAILABLE == 503

\* enum RetFormat
RF_UNDEF == "RF_UNDEF"
RF_BINARY == "RF_BINARY"
RF_HEX == "RF_HEX"
RF_JSON == "RF_JSON"

rf_names == << [rf |-> RF_UNDEF, name |-> ""],
               [rf |-> RF_BINARY, name |-> "bin"],
               [rf |-> RF_HEX, name |-> "hex"],
               [rf |-> RF_JSON, name |-> "json"] >>

\* ----------------------------------------------------------- text helpers

\* The i-th character of s (1-based), as a one-character string.
CharAt(s, i) == SubSeq(s, i, i)

\* std::string::substr(pos) with 0-based pos <= length.
SubstrFrom(s, pos) == SubSeq(s, pos + 1, Len(s))

\* std::string::substr(0, n): at most n characters.
SubstrTo(s, n) == SubSeq(s, 1, IF n < Len(s) THEN n ELSE Len(s))

\* std::string::find(c): 0-based position of the first c, or -1 for npos.
RECURSIVE FindFrom(_, _, _)
FindFrom(s, c, i) ==
    IF i > Len(s) THEN -1
    ELSE IF CharAt(s, i) = c THEN i - 1
    ELSE FindFrom(s, c, i + 1)

Find(s, c) == FindFrom(s, c, 1)

\* std::string::rfind(c): 0-based position of the last c, or -1 for npos.
RECURSIVE RFindFrom(_, _, _)
RFindFrom(s, c, i) ==
    IF i < 1 THEN -1
    ELSE IF CharAt(s, i) = c THEN i - 1
    ELSE RFindFrom(s, c, i - 1)

RFind(s, c) == RFindFrom(s, c, Len(s))

\* boost::split(out, s, is_any_of("/")): every separator ends a token, empty
\* tokens are kept, so the result always holds at least one token.
RECURSIVE Split(_)
Split(s) ==
    LET p == Find(s, "/") IN
    IF p = -1 THEN << s >>
    ELSE << SubstrTo(s, p) >> \o Split(SubstrFrom(s, p + 1))

HexDigits == "0123456789abcdef"
HexDigitsUpper == "0123456789ABCDEF"
DecDigits == "0123456789"

\* HexDigit(c): the value of a hex character, -1 when it is none.
HexDigit(c) ==
    LET lo == Find(HexDigits, c)
        up == Find(HexDigitsUpper, c)
    IN IF lo # -1 THEN lo ELSE up

\* IsHex(str): every character a hex digit, length even and not zero.
IsHex(str) ==
    /\ \A i \in 1..Len(str) : HexDigit(CharAt(str, i)) # -1
    /\ Len(str) > 0
    /\ Len(str) % 2 = 0

RECURSIVE ToLowerHex(_)
ToLowerHex(s) ==
    IF Len(s) = 0 THEN ""
    ELSE CharAt(HexDigits, HexDigit(CharAt(s, 1)) + 1) \o ToLowerHex(SubstrFrom(s, 1))

RECURSIVE StripZeros(_)
StripZeros(s) ==
    IF Len(s) > 0 /\ CharAt(s, 1) = "0" THEN StripZeros(SubstrFrom(s, 1)) ELSE s

\* uint256::SetHex on text that IsHex accepted, of at most 64 digits: the value.
SetHex(str) == StripZeros(ToLowerHex(str))

\* ParseHashStr: exactly 64 hex characters.
ParseHashStr(strReq) ==
    IF ~IsHex(strReq) \/ Len(strReq) # 64
    THEN [ok |-> FALSE, v |-> ""]
    ELSE [ok |-> TRUE, v |-> SetHex(strReq)]

RECURSIVE DecValue(_)
DecValue(s) ==
    IF Len(s) = 0 THEN 0
    ELSE DecValue(SubstrTo(s, Len(s) - 1)) * 10 + Find(DecDigits, CharAt(s, Len(s)))

\* ParseInt32(str, &n): an optional '-', then decimal digits only; the value
\* must fit 32 bits.  Digit strings longer than 9 digits are refused here
\* (they are outside the inputs of this model).
ParseInt32(str) ==
    LET neg == Len(str) > 0 /\ CharAt(str, 1) = "-"
        digs == IF neg THEN SubstrFrom(str, 1) ELSE str
        good == /\ Len(digs) > 0
                /\ Len(digs) <= 9
                /\ \A i \in 1..Len(digs) : Find(DecDigits, CharAt(digs, i)) # -1
    IN IF good THEN [ok |-> TRUE, n |-> IF neg THEN 0 - DecValue(digs) ELSE DecValue(digs)]
       ELSE [ok |-> FALSE, n |-> 0]

\* ------------------------------------------------------- ParseDataFormat

RECURSIVE FormatOfSuffix(_, _)
FormatOfSuffix(suff, i) ==
    IF i > Len(rf_names) THEN rf_names[1].rf
    ELSE IF suff = rf_names[i].name THEN rf_names[i].rf
    ELSE FormatOfSuffix(suff, i + 1)

\* ParseDataFormat that truncates the parameter only when it knows the suffix.
ParseDataFormat_KeepUnknownSuffix(strReq) ==
    LET pos == RFind(strReq, ".") IN
    IF pos = -1 THEN [param |-> strReq, rf |-> rf_names[1].rf]
    ELSE IF FormatOfSuffix(SubstrFrom(strReq, pos + 1), 1) = RF_UNDEF
    THEN [param |-> strReq, rf |-> RF_UNDEF]
    ELSE [param |-> SubstrTo(strReq, pos),
          rf |-> FormatOfSuffix(SubstrFrom(strReq, pos + 1), 1)]

ParseDataFormat(strReq) ==
    LET pos == RFind(strReq, ".") IN
    IF pos = -1 THEN [param |-> strReq, rf |-> rf_names[1].rf]
    ELSE [param |-> SubstrTo(strReq, pos),
          rf |-> FormatOfSuffix(SubstrFrom(strReq, pos + 1), 1)]

\* ------------------------------------------------ request body (bytes)

\* HexDigit on a character code (the body is a byte sequence).
HexDigitCode(b) ==
    IF b >= 48 /\ b <= 57 THEN b - 48
    ELSE IF b >= 97 /\ b <= 102 THEN b - 87
    ELSE IF b >= 65 /\ b <= 70 THEN b - 55
    ELSE -1

IsSpaceCode(b) == b = 32 \/ (b >= 9 /\ b <= 13)

\* ParseHex(str): skip white space, read two hex digits per byte, stop at the
\* first character that is no hex digit (also in the middle of a byte).
RECURSIVE ParseHex(_)
ParseHex(str) ==
    IF Len(str) = 0 THEN << >>
    ELSE IF IsSpaceCode(str[1]) THEN ParseHex(Tail(str))
    ELSE IF HexDigitCode(str[1]) = -1 THEN << >>
    ELSE IF Len(str) < 2 \/ HexDigitCode(str[2]) = -1 THEN << >>
    ELSE << HexDigitCode(str[1]) * 16 + HexDigitCode(str[2]) >>
         \o ParseHex(SubSeq(str, 3, Len(str)))

HexOfByte(b) == CharAt(HexDigits, (b \div 16) + 1) \o CharAt(HexDigits, (b % 16) + 1)

\* The uint256 held by 32 little-endian bytes.
RECURSIVE HexOfBytesReversed(_)
HexOfBytesReversed(bs) ==
    IF Len(bs) = 0 THEN ""
    ELSE HexOfBytesReversed(Tail(bs)) \o HexOfByte(bs[1])

Uint256OfBytes(bs) == StripZeros(HexOfBytesReversed(bs))

\* The 32-bit pattern held by 4 little-endian bytes, as the int32 with that
\* pattern (COutPoint::n is unsigned: a negative value here stands for
\* n + 2^32, which is above every vout size).
Int32OfBytes(bs) ==
    bs[1] + 256 * bs[2] + 65536 * bs[3]
      + 16777216 * (IF bs[4] >= 128 THEN bs[4] - 256 ELSE bs[4])

HASH_BYTES == 32
INDEX_BYTES == 4
OUTPOINT_BYTES == HASH_BYTES + INDEX_BYTES

\* oss >> vOutPoints, after the count: count outpoints of 36 bytes each.
RECURSIVE ReadOutPoints(_, _)
ReadOutPoints(bs, count) ==
    IF count = 0 THEN [ok |-> TRUE, v |-> << >>]
    ELSE IF Len(bs) < OUTPOINT_BYTES THEN [ok |-> FALSE, v |-> << >>]
    ELSE LET rest == ReadOutPoints(SubSeq(bs, OUTPOINT_BYTES + 1, Len(bs)), count - 1)
             op == [hash |-> Uint256OfBytes(SubSeq(bs, 1, HASH_BYTES)),
                    n |-> Int32OfBytes(SubSeq(bs, HASH_BYTES + 1, OUTPOINT_BYTES))]
         IN [ok |-> rest.ok, v |-> IF rest.ok THEN << op >> \o rest.v ELSE << >>]

\* oss >> fCheckMemPool; oss >> vOutPoints: one byte of flag, a one-byte
\* count (counts of 253 and more need the longer compact-size forms, which no
\* body of this model uses: they are refused), then the outpoints.  Bytes
\* left over are ignored.  ok = FALSE is std::ios_base::failure.
Deserialize(bs) ==
    IF Len(bs) < 2 \/ bs[2] >= 253
    THEN [ok |-> FALSE, fCheckMemPool |-> FALSE, vOutPoints |-> << >>]
    ELSE LET r == ReadOutPoints(SubSeq(bs, 3, Len(bs)), bs[2])
         IN [ok |-> r.ok, fCheckMemPool |-> bs[1] # 0, vOutPoints |-> r.v]

\* ------------------------------------------- transactions, chain, coins

\* The transactions of this model.  TxA creates two outputs and spends
\* nothing the model tracks; TxB spends TxA's output 0 and creates one output.
TxA == [hash |-> "aa", nVersion |-> 1, vin |-> {},
        vout |-> << [nValue |-> 50], [nValue |-> 25] >>]
TxB == [hash |-> "bb", nVersion |-> 2, vin |-> {[hash |-> "aa", n |-> 0]},
        vout |-> << [nValue |-> 40] >>]
Txs == {TxA, TxB}

\* CTxOut::SetNull / IsNull.
NullOut == [nValue |-> -1]
IsNull(out) == out.nValue = -1

\* CCoins::Cleanup: drop the null outputs at the end of vout.
RECURSIVE Cleanup(_)
Cleanup(vout) ==
    IF Len(vout) > 0 /\ IsNull(vout[Len(vout)])
    THEN Cleanup(SubSeq(vout, 1, Len(vout) - 1))
    ELSE vout

\* CCoins::Spend(nPos); nPos is 0-based.
Spend(coins, nPos) ==
    IF nPos < 0 \/ nPos >= Len(coins.vout) \/ IsNull(coins.vout[nPos + 1])
    THEN coins
    ELSE [coins EXCEPT !.vout = Cleanup([@ EXCEPT ![nPos + 1] = NullOut])]

\* CCoins::IsAvailable(nPos): inside vout and not null.  A negative nPos
\* stands for an unsigned value of 2^31 or more.
IsAvailable(coins, nPos) ==
    nPos >= 0 /\ nPos < Len(coins.vout) /\ ~IsNull(coins.vout[nPos + 1])

\* CCoins::IsPruned: no output left.
IsPruned(coins) == \A k \in 1..Len(coins.vout) : IsNull(coins.vout[k])

RECURSIVE SpendAll(_, _)
SpendAll(coins, ns) ==
    IF ns = {} THEN coins
    ELSE LET k == CHOOSE k \in ns : \A m \in ns : k <= m
         IN SpendAll(Spend(coins, k), ns \ {k})

NoCoins == [found |-> FALSE, coins |-> [nVersion |-> 0, nHeight |-> 0, vout |-> << >>]]

\* The block at height h that holds the transactions vtx.  Its hash is hex
\* text naming the height and the content, so different blocks differ.
TxCode(vtx) == (IF TxA \in vtx THEN 1 ELSE 0) + (IF TxB \in vtx THEN 2 ELSE 0)
BlockAt(h, vtx) ==
    [hash |-> "b" \o CharAt(HexDigits, h + 1) \o CharAt(HexDigits, TxCode(vtx) + 1),
     nHeight |-> h, vtx |-> vtx]

GenesisBlock == BlockAt(0, {})

\* The blocks the node has received: their index entries exist before any of
\* them is connected.
KnownBlocks ==
    {GenesisBlock} \cup {BlockAt(h, vtx) : h \in 1..MaxHeight, vtx \in SUBSET Txs}

\* CChain::Height and CChain::Tip of the active chain (element 1 is height 0).
Height(chain) == Len(chain) - 1
Tip(chain) == chain[Len(chain)]

Confirmed(chain) == UNION {chain[k].vtx : k \in 1..Len(chain)}
HeightOfTx(chain, t) == (CHOOSE k \in 1..Len(chain) : t \in chain[k].vtx) - 1

\* The outpoints that the transactions of a set spend, for one hash.
SpentBy(txs, hash) == {in.n : in \in {i \in UNION {t.vin : t \in txs} : i.hash = hash}}

\* pcoinsTip->GetCoins(txid, coins): the confirmed chain state, i.e. the
\* outputs of confirmed transactions that no confirmed transaction spends.
CoinsTipGetCoins(chain, txid) ==
    LET conf == {t \in Confirmed(chain) : t.hash = txid} IN
    IF conf = {} THEN NoCoins
    ELSE LET t == CHOOSE t \in conf : TRUE
             c == SpendAll([nVersion |-> t.nVersion, nHeight |-> HeightOfTx(chain, t),
                            vout |-> t.vout], SpentBy(Confirmed(chain), txid))
         IN IF IsPruned(c) THEN NoCoins ELSE [found |-> TRUE, coins |-> c]

\* CCoinsViewMemPool::GetCoins: a transaction of the mempool is returned
\* whole, at the mempool height; otherwise the base view decides.
ViewMemPoolGetCoins(chain, pool, txid) ==
    LET inpool == {t \in pool : t.hash = txid} IN
    IF inpool # {}
    THEN LET t == CHOOSE t \in inpool : TRUE
         IN [found |-> TRUE,
             coins |-> [nVersion |-> t.nVersion, nHeight |-> MEMPOOL_HEIGHT, vout |-> t.vout]]
    ELSE CoinsTipGetCoins(chain, txid)

\* CTxMemPool::pruneSpent(hash, coins): spend what mempool transactions spend.
PruneSpent(pool, hash, coins) == SpendAll(coins, SpentBy(pool, hash))

\* CCoinsView::GetCoins of the base class (viewDummy): it holds nothing.
ViewDummyGetCoins(txid) == NoCoins

\* ------------------------------------------------------------- RestErr

NoErr == [status |-> HTTP_OK, message |-> ""]

\* RESTERR(status, message)
RESTERR(status, message) == [status |-> status, message |-> message]

Threw(re) == re.status # HTTP_OK

\* strprintf("%d", n) for n >= 0.
RECURSIVE DecStr(_)
DecStr(n) ==
    IF n < 10 THEN CharAt(DecDigits, n + 1)
    ELSE DecStr(n \div 10) \o CharAt(DecDigits, (n % 10) + 1)

\* AvailableDataFormatsString(): ".bin, .hex, .json"
RECURSIVE FormatsFrom(_)
FormatsFrom(i) ==
    IF i > Len(rf_names) THEN ""
    ELSE (IF Len(rf_names[i].name) > 0 THEN "." \o rf_names[i].name \o ", " ELSE "")
         \o FormatsFrom(i + 1)

AvailableDataFormatsString ==
    LET formats == FormatsFrom(1) IN
    IF Len(formats) > 0 THEN SubstrTo(formats, Len(formats) - 2) ELSE formats

FormatNotFound ==
    RESTERR(HTTP_NOT_FOUND,
            "output format not found (available: " \o AvailableDataFormatsString \o ")")

\* ------------------------------------------- rest_getutxos: the input

\* One URI token <txid>-<n>.  Without a '-', find() gives npos: substr(0, npos)
\* is the whole token and substr(npos + 1) is substr(0), the whole token again.
ParseUriOutPoint(part) ==
    LET p == Find(part, "-")
        strTxid == IF p = -1 THEN part ELSE SubstrTo(part, p)
        strOutput == IF p = -1 THEN part ELSE SubstrFrom(part, p + 1)
        out == ParseInt32(strOutput)
    IN IF ~out.ok \/ ~IsHex(strTxid)
       THEN [ok |-> FALSE, op |-> [hash |-> "", n |-> 0]]
       ELSE [ok |-> TRUE, op |-> [hash |-> SetHex(strTxid), n |-> out.n]]

RECURSIVE ParseUriOutPoints(_, _)
ParseUriOutPoints(uriParts, i) ==
    IF i > Len(uriParts) THEN [ok |-> TRUE, v |-> << >>]
    ELSE LET one == ParseUriOutPoint(uriParts[i])
             rest == ParseUriOutPoints(uriParts, i + 1)
         IN IF one.ok /\ rest.ok THEN [ok |-> TRUE, v |-> << one.op >> \o rest.v]
            ELSE [ok |-> FALSE, v |-> << >>]

\* param.length() > 1: split what follows the first character at every '/'.
UriParts(param) == IF Len(param) > 1 THEN Split(SubstrFrom(param, 1)) ELSE << >>

\* The URI channel (uriParts.size() > 0): the checkmempool token, the
\* outpoints, and the error when a token does not parse or none is given.
UriChannel(uriParts) ==
    LET fCheckMemPool == uriParts[1] = "checkmempool"
        parsed == ParseUriOutPoints(uriParts, IF fCheckMemPool THEN 2 ELSE 1)
    IN IF ~parsed.ok
       THEN [err |-> RESTERR(HTTP_INTERNAL_SERVER_ERROR, "Parse error"),
             fCheckMemPool |-> fCheckMemPool, vOutPoints |-> << >>]
       ELSE IF Len(parsed.v) = 0
       THEN [err |-> RESTERR(HTTP_INTERNAL_SERVER_ERROR, "Error: empty request"),
             fCheckMemPool |-> fCheckMemPool, vOutPoints |-> << >>]
       ELSE [err |-> NoErr, fCheckMemPool |-> fCheckMemPool, vOutPoints |-> parsed.v]

\* case RF_BINARY (and RF_HEX after its conversion): the body channel.  in is
\* what the URI channel left: fInputParsed, fCheckMemPool, vOutPoints.
BodyChannel(strRequestMutable, in) ==
    IF Len(strRequestMutable) > 0
    THEN IF in.fInputParsed
         THEN [in EXCEPT !.err = RESTERR(HTTP_INTERNAL_SERVER_ERROR,
                   "Combination of URI scheme inputs and raw post data is not allowed")]
         ELSE LET d == Deserialize(strRequestMutable) IN
              IF ~d.ok
              THEN [in EXCEPT !.err = RESTERR(HTTP_INTERNAL_SERVER_ERROR, "Parse error")]
              ELSE [in EXCEPT !.fCheckMemPool = d.fCheckMemPool,
                              !.vOutPoints = d.vOutPoints]
    ELSE in

\* switch (rf) on the input side.
InputSwitch(rf, strRequest, in) ==
    IF rf = RF_HEX THEN BodyChannel(ParseHex(strRequest), in)
    ELSE IF rf = RF_BINARY THEN BodyChannel(strRequest, in)
    ELSE IF rf = RF_JSON
    THEN IF ~in.fInputParsed
         THEN [in EXCEPT !.err = RESTERR(HTTP_INTERNAL_SERVER_ERROR, "Error: empty request")]
         ELSE in
    ELSE [in EXCEPT !.err = FormatNotFound]

\* LimitCheck that rejects MAX_GETUTXOS_OUTPOINTS outpoints too.
LimitCheck_AtMost14(vOutPoints) ==
    IF Len(vOutPoints) >= MAX_GETUTXOS_OUTPOINTS
    THEN RESTERR(HTTP_INTERNAL_SERVER_ERROR,
                 "Error: max outpoints exceeded (max: " \o DecStr(MAX_GETUTXOS_OUTPOINTS)
                 \o ", tried: " \o DecStr(Len(vOutPoints)) \o ")")
    ELSE NoErr

\* limit max outpoints
LimitCheck(vOutPoints) ==
    IF Len(vOutPoints) > MAX_GETUTXOS_OUTPOINTS
    THEN RESTERR(HTTP_INTERNAL_SERVER_ERROR,
                 "Error: max outpoints exceeded (max: " \o DecStr(MAX_GETUTXOS_OUTPOINTS)
                 \o ", tried: " \o DecStr(Len(vOutPoints)) \o ")")
    ELSE NoErr

\* The locals of the input side before any channel is read.
NoInput(rf) ==
    [err |-> NoErr, rf |-> rf, fInputParsed |-> FALSE, fCheckMemPool |-> FALSE,
     vOutPoints |-> << >>]

NoUriInput == [err |-> NoErr, fCheckMemPool |-> FALSE, vOutPoints |-> << >>]

\* The locals after the URI channel returned uri.
AfterUriChannel(rf, uri) ==
    [NoInput(rf) EXCEPT !.err = uri.err,
                        !.fInputParsed = Len(uri.vOutPoints) > 0,
                        !.fCheckMemPool = uri.fCheckMemPool,
                        !.vOutPoints = uri.vOutPoints]

\* if (vOutPoints.size() > MAX_GETUTXOS_OUTPOINTS) throw ..., unless the
\* switch on the format threw already.
AfterInputSwitch(in) ==
    IF Threw(in.err) THEN in ELSE [in EXCEPT !.err = LimitCheck(in.vOutPoints)]

\* The switch on the format, unless the URI channel threw already.
AfterUriParsed(strRequest, in) ==
    IF Threw(in.err) THEN in ELSE AfterInputSwitch(InputSwitch(in.rf, strRequest, in))

\* From the empty-request check on.
ResolveParts(rf, uriParts, strRequest) ==
    IF Len(strRequest) = 0 /\ Len(uriParts) = 0
    THEN [NoInput(rf) EXCEPT
            !.err = RESTERR(HTTP_INTERNAL_SERVER_ERROR, "Error: empty request")]
    ELSE IF Len(uriParts) > 0
    THEN AfterUriParsed(strRequest, AfterUriChannel(rf, UriChannel(uriParts)))
    ELSE AfterUriParsed(strRequest, AfterUriChannel(rf, NoUriInput))

ResolveFormat(pd, strRequest) == ResolveParts(pd.rf, UriParts(pd.param), strRequest)

\* rest_getutxos up to the lock: the resolved query, or the error thrown.
ResolveInput(strURIPart, strRequest) ==
    ResolveFormat(ParseDataFormat(strURIPart), strRequest)

\* ------------------------------------------ rest_getutxos: the lookup

\* view.GetCoins(hash, coins): the cache reads its backend, which is
\* viewDummy unless SetBackend(viewMempool) was called.
ViewGetCoins(fCheckMemPool, chain, pool, hash) ==
    IF fCheckMemPool THEN ViewMemPoolGetCoins(chain, pool, hash)
    ELSE ViewDummyGetCoins(hash)

\* LookupOutPoint without the call of mempool.pruneSpent.
LookupOutPoint_NoPrune(fCheckMemPool, chain, pool, op) ==
    LET got == ViewGetCoins(fCheckMemPool, chain, pool, op.hash)
    IN IF got.found /\ IsAvailable(got.coins, op.n)
       THEN [hit |-> TRUE,
             coin |-> [nTxVer |-> got.coins.nVersion, nHeight |-> got.coins.nHeight,
                       out |-> got.coins.vout[op.n + 1]]]
       ELSE [hit |-> FALSE, coin |-> [nTxVer |-> 0, nHeight |-> 0, out |-> NullOut]]

\* The body of the loop for one outpoint: whether it is a hit, and its CCoin.
LookupOutPoint(fCheckMemPool, chain, pool, op) ==
    LET got == ViewGetCoins(fCheckMemPool, chain, pool, op.hash)
        coins == PruneSpent(pool, op.hash, got.coins)
    IN IF got.found /\ IsAvailable(coins, op.n)
       THEN [hit |-> TRUE,
             coin |-> [nTxVer |-> coins.nVersion, nHeight |-> coins.nHeight,
                       out |-> coins.vout[op.n + 1]]]
       ELSE [hit |-> FALSE, coin |-> [nTxVer |-> 0, nHeight |-> 0, out |-> NullOut]]

\* LoopBody with the character of the bitmap string appended inside the
\* branch of a hit only.
LoopBody_CharOnHitOnly(u, chain, pool) ==
    LET r == LookupOutPoint(u.fCheckMemPool, chain, pool, u.vOutPoints[u.i + 1])
    IN [u EXCEPT !.hits = [@ EXCEPT ![u.i + 1] = r.hit],
                 !.outs = IF r.hit THEN Append(@, r.coin) ELSE @,
                 !.bitmapStringRepresentation = @ \o (IF r.hit THEN "1" ELSE ""),
                 !.i = @ + 1]

\* LoopBody that keeps one CCoin per distinct coin instead of one per hit.
LoopBody_OneCoinPerOutPoint(u, chain, pool) ==
    LET r == LookupOutPoint(u.fCheckMemPool, chain, pool, u.vOutPoints[u.i + 1])
    IN [u EXCEPT !.hits = [@ EXCEPT ![u.i + 1] = r.hit],
                 !.outs = IF r.hit /\ \A k \in 1..Len(@) : @[k] # r.coin
                          THEN Append(@, r.coin) ELSE @,
                 !.bitmapStringRepresentation = @ \o (IF r.hit THEN "1" ELSE "0"),
                 !.i = @ + 1]

\* One iteration of the loop on the locals u, for outpoint u.i (0-based).
LoopBody(u, chain, pool) ==
    LET r == LookupOutPoint(u.fCheckMemPool, chain, pool, u.vOutPoints[u.i + 1])
    IN [u EXCEPT !.hits = [@ EXCEPT ![u.i + 1] = r.hit],
                 !.outs = IF r.hit THEN Append(@, r.coin) ELSE @,
                 !.bitmapStringRepresentation = @ \o (IF r.hit THEN "1" ELSE "0"),
                 !.i = @ + 1]

\* boost::to_block_range(hits, back_inserter(bitmap)): bit i of the bitset
\* is bit i % 8 of byte i / 8.
RECURSIVE BlockValue(_, _, _)
BlockValue(hits, from, k) ==
    IF k >= 8 \/ from + k > Len(hits) THEN 0
    ELSE (IF hits[from + k] THEN 1 ELSE 0) + 2 * BlockValue(hits, from, k + 1)

ToBlockRange(hits) ==
    [b \in 1..((Len(hits) + 7) \div 8) |-> BlockValue(hits, 8 * (b - 1) + 1, 0)]

\* ------------------------------------------------- the other handlers

\* HTTPReply(HTTP_OK, ...) of a handler: the format decides the content type.
ContentTypeOf(rf) ==
    IF rf = RF_BINARY THEN "application/octet-stream"
    ELSE IF rf = RF_HEX THEN "text/plain"
    ELSE "application/json"

OkReply(rf, what, value) ==
    [status |-> HTTP_OK, contentType |-> ContentTypeOf(rf),
     body |-> [what |-> what, rf |-> rf, value |-> value]]

NoReply == [status |-> 0, contentType |-> "", body |-> ""]

\* A handler's outcome: the RestErr it threw, or its reply and return value.
Thrown(re) == [err |-> re, reply |-> NoReply, ret |-> FALSE]
Returned(reply) == [err |-> NoErr, reply |-> reply, ret |-> TRUE]

\* GetTransaction(hash, tx, hashBlock, true) without a transaction index: the
\* mempool first, then the block that the unspent coins of the hash name.
GetTransaction(chain, pool, hash) ==
    LET inpool == {t \in pool : t.hash = hash}
        c == CoinsTipGetCoins(chain, hash)
    IN IF inpool # {}
       THEN [found |-> TRUE, tx |-> CHOOSE t \in inpool : TRUE, hashBlock |-> ""]
       ELSE IF c.found
       THEN [found |-> TRUE, tx |-> CHOOSE t \in Confirmed(chain) : t.hash = hash,
             hashBlock |-> chain[c.coins.nHeight + 1].hash]
       ELSE [found |-> FALSE, tx |-> TxA, hashBlock |-> ""]

\* rest_tx and rest_block before they read anything: the hash is parsed.
HashInput(strURIPart) ==
    LET pd == ParseDataFormat(strURIPart) IN
    IF ~ParseHashStr(pd.param).ok
    THEN RESTERR(HTTP_BAD_REQUEST, "Invalid hash: " \o pd.param)
    ELSE NoErr

rest_tx(strURIPart, chain, pool) ==
    LET pd == ParseDataFormat(strURIPart)
        h == ParseHashStr(pd.param)
        got == GetTransaction(chain, pool, h.v)
    IN IF Threw(HashInput(strURIPart)) THEN Thrown(HashInput(strURIPart))
       ELSE IF ~got.found THEN Thrown(RESTERR(HTTP_NOT_FOUND, pd.param \o " not found"))
       ELSE IF pd.rf \in {RF_BINARY, RF_HEX, RF_JSON}
       THEN Returned(OkReply(pd.rf, "tx", [tx |-> got.tx, hashBlock |-> got.hashBlock]))
       ELSE Thrown(FormatNotFound)

\* rest_block on a node that does not prune (fHavePruned is false) and whose
\* block files are readable.
rest_block(strURIPart, index, showTxDetails) ==
    LET pd == ParseDataFormat(strURIPart)
        h == ParseHashStr(pd.param)
        known == {b \in index : b.hash = h.v}
    IN IF Threw(HashInput(strURIPart)) THEN Thrown(HashInput(strURIPart))
       ELSE IF known = {} THEN Thrown(RESTERR(HTTP_NOT_FOUND, pd.param \o " not found"))
       ELSE IF pd.rf \in {RF_BINARY, RF_HEX}
       THEN Returned(OkReply(pd.rf, "block", [block |-> CHOOSE b \in known : TRUE]))
       ELSE IF pd.rf = RF_JSON
       THEN Returned(OkReply(pd.rf, "block", [block |-> CHOOSE b \in known : TRUE,
                                               txDetails |-> showTxDetails]))
       ELSE Thrown(FormatNotFound)

rest_block_extended(strURIPart, index) == rest_block(strURIPart, index, TRUE)

rest_block_notxdetails(strURIPart, index) == rest_block(strURIPart, index, FALSE)

\* rest_chaininfo before it calls getblockchaininfo: the switch on the format.
ChainInfoInput(strURIPart) ==
    IF ParseDataFormat(strURIPart).rf = RF_JSON THEN NoErr
    ELSE RESTERR(HTTP_NOT_FOUND, "output format not found (available: json)")

rest_chaininfo(strURIPart, chain) ==
    IF Threw(ChainInfoInput(strURIPart)) THEN Thrown(ChainInfoInput(strURIPart))
    ELSE Returned(OkReply(RF_JSON, "chaininfo",
                          [blocks |-> Height(chain), bestblockhash |-> Tip(chain).hash]))

\* strtol(s, NULL, 10) on text without white space: an optional sign, then
\* the decimal digits at the front; 0 when there is none.  At most 9 digits
\* are read here (longer counts are outside the inputs of this model).
RECURSIVE LeadingDigits(_, _)
LeadingDigits(s, i) ==
    IF i > Len(s) \/ i > 9 \/ Find(DecDigits, CharAt(s, i)) = -1 THEN i - 1
    ELSE LeadingDigits(s, i + 1)

Strtol(s) ==
    LET neg == Len(s) > 0 /\ CharAt(s, 1) = "-"
        signed == Len(s) > 0 /\ CharAt(s, 1) \in {"-", "+"}
        digs == IF signed THEN SubstrFrom(s, 1) ELSE s
        v == DecValue(SubstrTo(digs, LeadingDigits(digs, 1)))
    IN IF neg THEN 0 - v ELSE v

MIN_HEADER_COUNT == 1
MAX_HEADER_COUNT == 2000

\* The loop of rest_headers under cs_main: from the block with the hash,
\* along the active chain, up to count headers.
\* The loop without its test of headers.size() against count.
RECURSIVE WalkHeaders_ToTheTip(_, _, _)
WalkHeaders_ToTheTip(chain, h, count) ==
    IF h > Height(chain) THEN << >>
    ELSE << chain[h + 1].hash >> \o WalkHeaders_ToTheTip(chain, h + 1, count)

RECURSIVE WalkHeaders(_, _, _)
WalkHeaders(chain, h, count) ==
    IF h > Height(chain) \/ count = 0 THEN << >>
    ELSE << chain[h + 1].hash >> \o WalkHeaders(chain, h + 1, count - 1)

CollectHeaders(chain, index, hash, count) ==
    LET known == {b \in index : b.hash = hash} IN
    IF known = {} THEN << >>
    ELSE LET pindex == CHOOSE b \in known : TRUE IN
         \* chainActive.Contains(pindex)
         IF pindex.nHeight <= Height(chain) /\ chain[pindex.nHeight + 1] = pindex
         THEN WalkHeaders(chain, pindex.nHeight, count)
         ELSE << >>

\* rest_headers before it takes cs_main: the path, the count and the hash.
HeadersInput(strURIPart) ==
    LET path == Split(ParseDataFormat(strURIPart).param) IN
    IF Len(path) # 2
    THEN RESTERR(HTTP_BAD_REQUEST,
                 "No header count specified. Use /rest/headers/<count>/<hash>.<ext>.")
    ELSE IF Strtol(path[1]) < MIN_HEADER_COUNT \/ Strtol(path[1]) > MAX_HEADER_COUNT
    THEN RESTERR(HTTP_BAD_REQUEST, "Header count out of range: " \o path[1])
    ELSE IF ~ParseHashStr(path[2]).ok
    THEN RESTERR(HTTP_BAD_REQUEST, "Invalid hash: " \o path[2])
    ELSE NoErr

rest_headers(strURIPart, chain, index) ==
    LET pd == ParseDataFormat(strURIPart)
        path == Split(pd.param)
    IN IF Threw(HeadersInput(strURIPart)) THEN Thrown(HeadersInput(strURIPart))
       ELSE IF pd.rf \in {RF_BINARY, RF_HEX}
       THEN Returned(OkReply(pd.rf, "headers",
                             CollectHeaders(chain, index, ParseHashStr(path[2]).v,
                                            Strtol(path[1]))))
       ELSE Thrown(RESTERR(HTTP_NOT_FOUND,
                           "output format not found (available: .bin, .hex)"))

\* The character code of a character of a name.  Names of this model are
\* written with digits, letters, ' ', '-', '_' and '/'.
LowerLetters == "abcdefghijklmnopqrstuvwxyz"
UpperLetters == "ABCDEFGHIJKLMNOPQRSTUVWXYZ"
CodeOf(c) ==
    IF Find(DecDigits, c) # -1 THEN 48 + Find(DecDigits, c)
    ELSE IF Find(LowerLetters, c) # -1 THEN 97 + Find(LowerLetters, c)
    ELSE IF Find(UpperLetters, c) # -1 THEN 65 + Find(UpperLetters, c)
    ELSE IF c = " " THEN 32
    ELSE IF c = "-" THEN 45
    ELSE IF c = "/" THEN 47
    ELSE 95

\* DecodeName(decoded, encoded), from 1-based position i on.
RECURSIVE DecodeNameFrom(_, _)
DecodeNameFrom(encoded, i) ==
    IF i > Len(encoded) THEN [ok |-> TRUE, decoded |-> << >>]
    ELSE IF CharAt(encoded, i) = "+"
    THEN LET rest == DecodeNameFrom(encoded, i + 1)
         IN [ok |-> rest.ok, decoded |-> << CodeOf(" ") >> \o rest.decoded]
    ELSE IF CharAt(encoded, i) = "%"
    THEN \* i + 2 >= encoded.end(), with the 0-based position i - 1
         IF (i - 1) + 2 >= Len(encoded) THEN [ok |-> FALSE, decoded |-> << >>]
         ELSE LET hi == HexDigit(CharAt(encoded, i + 1))
                  lo == HexDigit(CharAt(encoded, i + 2))
                  rest == DecodeNameFrom(encoded, i + 3)
              IN IF hi = -1 \/ lo = -1 THEN [ok |-> FALSE, decoded |-> << >>]
                 ELSE [ok |-> rest.ok, decoded |-> << hi * 16 + lo >> \o rest.decoded]
    ELSE LET rest == DecodeNameFrom(encoded, i + 1)
         IN [ok |-> rest.ok, decoded |-> << CodeOf(CharAt(encoded, i)) >> \o rest.decoded]

DecodeName(encoded) ==
    LET r == DecodeNameFrom(encoded, 1)
    IN [ok |-> r.ok, decoded |-> IF r.ok THEN r.decoded ELSE << >>]

\* The name index behind pcoinsTip->GetName: the name "a b c" is registered.
NameDb == { [name |-> << 97, 32, 98, 32, 99 >>, value |-> << 118 >>] }

\* ValtypeToString: the text of a name (of the characters CodeOf knows).
CharOf(code) ==
    IF code >= 48 /\ code <= 57 THEN CharAt(DecDigits, code - 47)
    ELSE IF code >= 97 /\ code <= 122 THEN CharAt(LowerLetters, code - 96)
    ELSE IF code >= 65 /\ code <= 90 THEN CharAt(UpperLetters, code - 64)
    ELSE IF code = 32 THEN " "
    ELSE IF code = 45 THEN "-"
    ELSE IF code = 47 THEN "/"
    ELSE "_"

RECURSIVE ValtypeToString(_)
ValtypeToString(v) ==
    IF Len(v) = 0 THEN "" ELSE CharOf(Head(v)) \o ValtypeToString(Tail(v))

\* rest_name before it reads the name index: the name is decoded.
NameInput(strURIPart) ==
    LET pd == ParseDataFormat(strURIPart) IN
    IF ~DecodeName(pd.param).ok
    THEN RESTERR(HTTP_BAD_REQUEST, "Invalid encoded name: " \o pd.param)
    ELSE NoErr

rest_name(strURIPart) ==
    LET pd == ParseDataFormat(strURIPart)
        plain == DecodeName(pd.param)
        data == {d \in NameDb : d.name = plain.decoded}
    IN IF Threw(NameInput(strURIPart)) THEN Thrown(NameInput(strURIPart))
       ELSE IF data = {}
       THEN Thrown(RESTERR(HTTP_NOT_FOUND,
                           "'" \o ValtypeToString(plain.decoded) \o "' not found"))
       ELSE IF pd.rf = RF_BINARY
       THEN Returned([OkReply(pd.rf, "name", CHOOSE d \in data : TRUE)
                        EXCEPT !.contentType = "text/plain"])
       ELSE IF pd.rf \in {RF_HEX, RF_JSON}
       THEN Returned(OkReply(pd.rf, "name", CHOOSE d \in data : TRUE))
       ELSE Thrown(FormatNotFound)

\* ------------------------------------------------------- the dispatcher

\* uri_prefixes with the entry of /rest/block/ ahead of /rest/block/notxdetails/.
uri_prefixes_BlockFirst ==
    << [prefix |-> "/rest/tx/", handler |-> "rest_tx"],
       [prefix |-> "/rest/block/", handler |-> "rest_block_extended"],
       [prefix |-> "/rest/block/notxdetails/", handler |-> "rest_block_notxdetails"],
       [prefix |-> "/rest/chaininfo", handler |-> "rest_chaininfo"],
       [prefix |-> "/rest/headers/", handler |-> "rest_headers"],
       [prefix |-> "/rest/getutxos", handler |-> "rest_getutxos"],
       [prefix |-> "/rest/name/", handler |-> "rest_name"] >>

uri_prefixes == << [prefix |-> "/rest/tx/", handler |-> "rest_tx"],
                   [prefix |-> "/rest/block/notxdetails/", handler |-> "rest_block_notxdetails"],
                   [prefix |-> "/rest/block/", handler |-> "rest_block_extended"],
                   [prefix |-> "/rest/chaininfo", handler |-> "rest_chaininfo"],
                   [prefix |-> "/rest/headers/", handler |-> "rest_headers"],
                   [prefix |-> "/rest/getutxos", handler |-> "rest_getutxos"],
                   [prefix |-> "/rest/name/", handler |-> "rest_name"] >>

\* strURI.substr(0, plen) == uri_prefixes[i].prefix
PrefixMatches(strURI, i) ==
    SubstrTo(strURI, Len(uri_prefixes[i].prefix)) = uri_prefixes[i].prefix

\* The loop over uri_prefixes from entry i on: the first entry that matches,
\* 0 when none does.
RECURSIVE FindPrefix(_, _)
FindPrefix(strURI, i) ==
    IF i > Len(uri_prefixes) THEN 0
    ELSE IF PrefixMatches(strURI, i) THEN i
    ELSE FindPrefix(strURI, i + 1)

\* A catch block that returns true after it wrote the error.
CatchRestErr_Continue(re) ==
    [reply |-> [status |-> re.status, contentType |-> "text/plain",
                body |-> re.message \o "\r\n"],
     ret |-> TRUE]

\* catch (const RestErr& re): the reply and the value returned.
CatchRestErr(re) ==
    [reply |-> [status |-> re.status, contentType |-> "text/plain",
                body |-> re.message \o "\r\n"],
     ret |-> FALSE]

\* After the loop found no prefix: HTTPError(HTTP_NOT_FOUND, false); return false.
DispatchMiss ==
    [reply |-> [status |-> HTTP_NOT_FOUND, contentType |-> "HTTPError", body |-> ""],
     ret |-> FALSE]

\* ------------------------------------------------------------ the inputs

Zeros64 == "0000000000000000000000000000000000000000000000000000000000000000"
Pad64(h) == SubstrTo(Zeros64, 64 - Len(h)) \o h

UtxoTokens == {"/aa-0", "/bb-0", "/bb-3"}

\* Every path of at most n tokens.
RECURSIVE TokenPaths(_)
TokenPaths(n) ==
    IF n = 0 THEN {""}
    ELSE LET shorter == TokenPaths(n - 1)
         IN shorter \cup {p \o t : p \in shorter, t \in UtxoTokens}

RECURSIVE Repeat(_, _)
Repeat(t, n) == IF n = 0 THEN "" ELSE t \o Repeat(t, n - 1)

LongCounts == MAX_GETUTXOS_OUTPOINTS .. (MAX_GETUTXOS_OUTPOINTS + MaxOver)

Extensions == {".bin", ".hex", ".json"}
CheckMemPoolTokens == {"", "/checkmempool"}

\* URIs of UTXO queries that are sent with an empty body: every short list
\* and the long lists in JSON, some lists in the other formats.
UtxoURIs ==
    {"/rest/getutxos" \o cm \o p \o ".json" :
        cm \in CheckMemPoolTokens,
        p \in TokenPaths(MaxUriOutpoints) \cup {Repeat("/aa-1", n) : n \in LongCounts}}
    \cup {"/rest/getutxos" \o cm \o p \o e :
        cm \in CheckMemPoolTokens,
        p \in {"/aa-0/aa-1", Repeat("/bb-0", MAX_GETUTXOS_OUTPOINTS + MaxOver)},
        e \in Extensions}
    \cup {"/rest/getutxos/checkmempool/bb-0/bb-3/bb-0.json",
          "/rest/getutxos/aa-0", "/rest/getutxos/zz-0.json", "/rest/getutxos/aa.json",
          "/rest/getutxos/aa-0/.json", "/rest/getutxos/.bin"}

\* URIs of UTXO queries that are sent with every body.
UtxoBodyURIs ==
    {"/rest/getutxos" \o cm \o p \o e :
        cm \in CheckMemPoolTokens, p \in {"", "/aa-0"}, e \in Extensions}
    \cup {"/rest/getutxos"}

OtherURIs ==
    {"/rest/tx/" \o Pad64("aa") \o ".json", "/rest/tx/" \o Pad64("bb") \o ".hex",
     "/rest/tx/" \o Pad64("cc") \o ".bin", "/rest/tx/aa.json", "/rest/tx/" \o Pad64("aa"),
     "/rest/block/notxdetails/" \o Pad64("b11") \o ".json",
     "/rest/block/notxdetails/" \o Pad64("b00") \o ".xyz",
     "/rest/block/" \o Pad64("b11") \o ".json", "/rest/block/" \o Pad64("b00") \o ".bin",
     "/rest/block/notxdetails.json", "/rest/block/" \o Pad64("b23") \o ".hex",
     "/rest/chaininfo.json", "/rest/chaininfo.bin", "/rest/chaininfoxyz.json",
     "/rest/headers/2/" \o Pad64("b00") \o ".bin", "/rest/headers/0/" \o Pad64("b00") \o ".bin",
     "/rest/headers/" \o Pad64("b00") \o ".hex", "/rest/headers/5/" \o Pad64("b11") \o ".json",
     "/rest/headers/3/" \o Pad64("b11") \o ".hex", "/rest/headers/1/b11.hex",
     "/rest/name/a+b%20c.json", "/rest/name/a+b%20c.bin", "/rest/name/a%2.hex",
     "/rest/name/zzz.bin", "/rest/name/a+b%20c",
     "/rest/headers/1/" \o Pad64("b00") \o ".bin",
     "/rest/headers/2000/" \o Pad64("b00") \o ".hex",
     "/rest/headers/2001/" \o Pad64("b00") \o ".bin",
     "/rest/headers/-1/" \o Pad64("b00") \o ".hex",
     "/rest/headers/abc/" \o Pad64("b00") \o ".bin",
     "/rest/headers/1x/" \o Pad64("b10") \o ".bin",
     "/rest/headers/2/" \o Pad64("b13") \o ".hex",
     "/rest/headers/2/" \o Pad64("cc") \o ".bin",
     "/rest/chaininfo.JSON", "/rest/chaininfo.", "/rest/chaininfo.jsonx",
     "/rest/chaininfo", "/rest/chaininfo.bin.json",
     "/rest/name/a+b%20c.Hex", "/rest/name/a+b%20c.", "/rest/name/a+b%20c.bin.xyz",
     "/rest/name/a.b.json", "/rest/name/.hex", "/rest/name/a+b%20c.hex",
     "/rest/tx/" \o Pad64("aa") \o ".json.bin", "/rest/tx/" \o Pad64("aa") \o ".js",
     "/rest/", "/rest/foo", "/rest/block", "/rest/getutxo", "/rest/names/a.json"}

OutPointA0 == [hash |-> "aa", n |-> 0]
OutPointA1 == [hash |-> "aa", n |-> 1]
OutPointB0 == [hash |-> "bb", n |-> 0]

\* A uint256 of at most two hex digits as 32 little-endian bytes, and a
\* small index as 4 little-endian bytes.
SerializeOutPoint(op) ==
    << HexDigit(CharAt(op.hash, 1)) * 16 + HexDigit(CharAt(op.hash, 2)) >>
    \o [k \in 1..(HASH_BYTES - 1) |-> 0]
    \o << op.n >> \o [k \in 1..(INDEX_BYTES - 1) |-> 0]

RECURSIVE SerializeOutPoints(_)
SerializeOutPoints(ops) ==
    IF Len(ops) = 0 THEN << >>
    ELSE SerializeOutPoint(ops[1]) \o SerializeOutPoints(Tail(ops))

\* The request of the wire layout: the flag, the count, the outpoints.
SerializeQuery(fCheckMemPool, ops) ==
    << IF fCheckMemPool THEN 1 ELSE 0, Len(ops) >> \o SerializeOutPoints(ops)

\* The lowercase hex text of bytes, as character codes.
HexCode(d) == IF d < 10 THEN 48 + d ELSE 87 + d
RECURSIVE HexText(_)
HexText(bs) ==
    IF Len(bs) = 0 THEN << >>
    ELSE << HexCode(bs[1] \div 16), HexCode(bs[1] % 16) >> \o HexText(Tail(bs))

Bodies ==
    { << >>,
      << 122, 122 >>,
      << 1 >>,
      SerializeQuery(FALSE, << >>),
      SerializeQuery(TRUE, << OutPointA0, OutPointB0 >>),
      SerializeQuery(FALSE, << OutPointA1 >>),
      HexText(SerializeQuery(TRUE, << OutPointA0 >>)),
      HexText(SerializeQuery(FALSE, << >>)) }
    \cup {SerializeQuery(TRUE, [k \in 1..n |-> OutPointA1]) : n \in LongCounts}

Requests ==
    ((UtxoURIs \cup OtherURIs) \X {<< >>}) \cup (UtxoBodyURIs \X Bodies)

\* ------------------------------------------------------------- the state

VARIABLES
    chainActive,    \* the active chain: the blocks from height 0 to the tip
    mapBlockIndex,  \* every block the node knows, connected or not
    mempool,        \* the unconfirmed transactions
    fWarmup,        \* RPCIsInWarmup
    cs_main,        \* TRUE while the request holds cs_main (and mempool.cs)
    pc,             \* where the request is
    strURI,         \* the request's URI
    strRequest,     \* the request's body
    handler,        \* the handler HTTPReq_REST called, "" when none
    strURIPart,     \* the URI without the matched prefix
    utxo,           \* the locals of rest_getutxos
    response,       \* what was written to the connection
    ret,            \* what HTTPReq_REST returned
    looked,         \* the height and tip the outpoints were looked up against
    outcome         \* what a handler has after it read its store: its reply or its error

vars == << chainActive, mapBlockIndex, mempool, fWarmup, cs_main, pc, strURI,
           strRequest, handler, strURIPart, utxo, response, ret, looked, outcome >>

world == << chainActive, mapBlockIndex, mempool, fWarmup >>
request == << strURI, strRequest >>
call == << handler, strURIPart >>

NoUtxo == [rf |-> RF_UNDEF, fCheckMemPool |-> FALSE, vOutPoints |-> << >>, i |-> 0,
           hits |-> << >>, outs |-> << >>, bitmapStringRepresentation |-> "",
           chainHeight |-> 0]
NoLooked == [height |-> -1, tip |-> ""]
NoOutcome == [err |-> NoErr, reply |-> NoReply, ret |-> FALSE]

Init ==
    /\ chainActive = << GenesisBlock >>
    /\ mapBlockIndex = KnownBlocks
    /\ mempool = {}
    /\ fWarmup = TRUE
    /\ cs_main = FALSE
    /\ pc = "idle"
    /\ strURI = ""
    /\ strRequest = << >>
    /\ handler = ""
    /\ strURIPart = ""
    /\ utxo = NoUtxo
    /\ response = NoReply
    /\ ret = FALSE
    /\ looked = NoLooked
    /\ outcome = NoOutcome

\* ------------------------------------------ the node around the gateway

\* Whether every input of t is unspent in the chain state plus the mempool.
InputsAvailable(chain, pool, t) ==
    \A in \in t.vin :
        LET got == ViewMemPoolGetCoins(chain, pool, in.hash)
        IN got.found /\ IsAvailable(PruneSpent(pool, in.hash, got.coins), in.n)

\* The steps of a request that read no chain state commute with the steps of
\* the node, so the node is let run only where its step can be seen: before a
\* request arrives, and between the unlocked reads of rest_getutxos.
\* Every step of the node takes cs_main.
NodeMayStep ==
    /\ ~cs_main
    /\ pc \in {"idle", "getutxos_height", "getutxos_tip", "handler_read"}

\* SetRPCWarmupFinished
SetRPCWarmupFinished ==
    /\ fWarmup
    /\ pc = "idle"
    /\ fWarmup' = FALSE
    /\ UNCHANGED << chainActive, mapBlockIndex, mempool, cs_main, pc, request,
                    call, utxo, response, ret, looked, outcome >>

\* A transaction enters the mempool (under cs_main and mempool.cs).
AcceptToMemoryPool ==
    /\ ~fWarmup /\ NodeMayStep
    /\ \E t \in Txs \ (mempool \cup Confirmed(chainActive)) :
          /\ InputsAvailable(chainActive, mempool, t)
          /\ mempool' = mempool \cup {t}
    /\ UNCHANGED << chainActive, mapBlockIndex, fWarmup, cs_main, pc, request,
                    call, utxo, response, ret, looked, outcome >>

\* A known block is connected to the tip (under cs_main): its transactions
\* are new to the chain and spend what the chain state or the block holds.
ConnectTip ==
    /\ ~fWarmup /\ NodeMayStep
    /\ \E block \in mapBlockIndex :
          /\ block.nHeight = Height(chainActive) + 1
          /\ block.vtx \cap Confirmed(chainActive) = {}
          /\ \A t \in block.vtx : \A in \in t.vin :
                 \/ \E s \in block.vtx : s.hash = in.hash
                 \/ IsAvailable(CoinsTipGetCoins(chainActive, in.hash).coins, in.n)
          /\ chainActive' = Append(chainActive, block)
          /\ mempool' = mempool \ block.vtx
    /\ UNCHANGED << mapBlockIndex, fWarmup, cs_main, pc, request, call,
                    utxo, response, ret, looked, outcome >>

\* The tip is disconnected; its transactions return to the mempool.
DisconnectTip ==
    /\ ~fWarmup /\ NodeMayStep
    /\ Height(chainActive) > 0
    /\ chainActive' = SubSeq(chainActive, 1, Len(chainActive) - 1)
    /\ mempool' = mempool \cup Tip(chainActive).vtx
    /\ UNCHANGED << mapBlockIndex, fWarmup, cs_main, pc, request, call,
                    utxo, response, ret, looked, outcome >>

\* ------------------------------------------------------ the request

\* The request ends: the reply is on the connection, HTTPReq_REST returned.
Finish(reply, value) ==
    /\ response' = reply
    /\ ret' = value
    /\ pc' = "done"

\* A handler ran to its end or threw; HTTPReq_REST catches what it threw.
FinishHandler(o) ==
    IF Threw(o.err)
    THEN Finish(CatchRestErr(o.err).reply, CatchRestErr(o.err).ret)
    ELSE Finish(o.reply, o.ret)

\* HTTPReq_REST up to the call of the handler.
HTTPReq_REST ==
    /\ pc = "HTTPReq_REST"
    /\ IF fWarmup
       THEN LET re == RESTERR(HTTP_SERVICE_UNAVAILABLE,
                              "Service temporarily unavailable: warming up")
            IN /\ Finish(CatchRestErr(re).reply, CatchRestErr(re).ret)
               /\ UNCHANGED call
       ELSE LET i == FindPrefix(strURI, 1) IN
            IF i = 0
            THEN /\ Finish(DispatchMiss.reply, DispatchMiss.ret)
                 /\ UNCHANGED call
            ELSE /\ strURIPart' = SubstrFrom(strURI, Len(uri_prefixes[i].prefix))
                 /\ handler' = uri_prefixes[i].handler
                 /\ pc' = uri_prefixes[i].handler
                 /\ UNCHANGED << response, ret >>
    /\ UNCHANGED << world, cs_main, request, utxo, looked, outcome >>

\* The handlers that take cs_main in rest.cpp around the read of their store.
LocksInHandler == {"rest_headers", "rest_block_extended", "rest_block_notxdetails"}

\* The handlers whose store is read by a function of the node that takes
\* cs_main itself: GetTransaction and getblockchaininfo.
LocksInCallee == {"rest_tx", "rest_chaininfo"}

\* A handler has parsed its input: it throws err, or it goes on to its store,
\* through LOCK(cs_main) when it, or the function it calls, takes the lock.
EnterHandler(err) ==
    IF Threw(err)
    THEN FinishHandler(Thrown(err))
    ELSE /\ pc' = IF handler \in LocksInHandler \cup LocksInCallee
                  THEN "handler_lock" ELSE "handler_read"
         /\ UNCHANGED << response, ret >>

Handle_rest_tx ==
    /\ pc = "rest_tx"
    /\ EnterHandler(HashInput(strURIPart))
    /\ UNCHANGED << world, cs_main, request, call, utxo, looked, outcome >>

Handle_rest_block_notxdetails ==
    /\ pc = "rest_block_notxdetails"
    /\ EnterHandler(HashInput(strURIPart))
    /\ UNCHANGED << world, cs_main, request, call, utxo, looked, outcome >>

Handle_rest_block_extended ==
    /\ pc = "rest_block_extended"
    /\ EnterHandler(HashInput(strURIPart))
    /\ UNCHANGED << world, cs_main, request, call, utxo, looked, outcome >>

Handle_rest_chaininfo ==
    /\ pc = "rest_chaininfo"
    /\ EnterHandler(ChainInfoInput(strURIPart))
    /\ UNCHANGED << world, cs_main, request, call, utxo, looked, outcome >>

Handle_rest_headers ==
    /\ pc = "rest_headers"
    /\ EnterHandler(HeadersInput(strURIPart))
    /\ UNCHANGED << world, cs_main, request, call, utxo, looked, outcome >>

\* rest_name has no LOCK(cs_main): it goes to pcoinsTip->GetName as it is.
Handle_rest_name ==
    /\ pc = "rest_name"
    /\ EnterHandler(NameInput(strURIPart))
    /\ UNCHANGED << world, cs_main, request, call, utxo, looked, outcome >>

\* LOCK(cs_main) of a handler, or of the function that reads its store.
Handler_Lock ==
    /\ pc = "handler_lock"
    /\ ~cs_main
    /\ cs_main' = TRUE
    /\ pc' = "handler_read"
    /\ UNCHANGED << world, request, call, utxo, response, ret, looked, outcome >>

\* What the handler called has once its store is read, in the chain state
\* and the mempool of the read.
StoreOutcome ==
    IF handler = "rest_tx" THEN rest_tx(strURIPart, chainActive, mempool)
    ELSE IF handler = "rest_block_notxdetails"
    THEN rest_block_notxdetails(strURIPart, mapBlockIndex)
    ELSE IF handler = "rest_block_extended"
    THEN rest_block_extended(strURIPart, mapBlockIndex)
    ELSE IF handler = "rest_chaininfo" THEN rest_chaininfo(strURIPart, chainActive)
    ELSE IF handler = "rest_headers"
    THEN rest_headers(strURIPart, chainActive, mapBlockIndex)
    ELSE rest_name(strURIPart)

\* The handler reads its store, and the block of the lock, when there is one,
\* ends: by its closing brace or by the exception thrown inside it.
Handler_Read ==
    /\ pc = "handler_read"
    /\ outcome' = StoreOutcome
    /\ cs_main' = FALSE
    /\ pc' = "handler_reply"
    /\ UNCHANGED << world, request, call, utxo, response, ret, looked >>

\* The handler encodes and writes its reply, or HTTPReq_REST the error thrown.
Handler_Reply ==
    /\ pc = "handler_reply"
    /\ FinishHandler(outcome)
    /\ UNCHANGED << world, cs_main, request, call, utxo, looked, outcome >>

\* What rest_getutxos does with the resolved input q: it throws, or it sets
\* up the bitset and goes on to the locks.
GetUtxos_Resolved(q) ==
    IF Threw(q.err)
    THEN /\ FinishHandler(Thrown(q.err))
         /\ UNCHANGED utxo
    ELSE /\ utxo' = [NoUtxo EXCEPT !.rf = q.rf,
                                   !.fCheckMemPool = q.fCheckMemPool,
                                   !.vOutPoints = q.vOutPoints,
                                   !.hits = [k \in 1..Len(q.vOutPoints) |-> FALSE]]
         /\ pc' = "getutxos_lock"
         /\ UNCHANGED << response, ret >>

\* rest_getutxos from its start to the bitset: the input is resolved.
GetUtxos_Input ==
    /\ pc = "rest_getutxos"
    /\ GetUtxos_Resolved(ResolveInput(strURIPart, strRequest))
    /\ UNCHANGED << world, cs_main, request, call, looked, outcome >>

\* LOCK2(cs_main, mempool.cs)
GetUtxos_Lock ==
    /\ pc = "getutxos_lock"
    /\ ~cs_main
    /\ cs_main' = TRUE
    /\ pc' = "getutxos_loop"
    /\ UNCHANGED << world, request, call, utxo, response, ret, looked, outcome >>

\* One iteration of the loop over vOutPoints.
GetUtxos_Loop ==
    /\ pc = "getutxos_loop"
    /\ utxo.i < Len(utxo.vOutPoints)
    /\ utxo' = LoopBody(utxo, chainActive, mempool)
    /\ UNCHANGED << world, cs_main, pc, request, call, response, ret, looked, outcome >>

\* The loop is over: the block of the locks ends.  looked records the chain
\* state the lookups were made against.
GetUtxos_Unlock ==
    /\ pc = "getutxos_loop"
    /\ utxo.i >= Len(utxo.vOutPoints)
    /\ cs_main' = FALSE
    /\ looked' = [height |-> Height(chainActive), tip |-> Tip(chainActive).hash]
    /\ pc' = "getutxos_height"
    /\ UNCHANGED << world, request, call, utxo, response, ret, outcome >>

\* The output side reads chainActive.Height() ...
GetUtxos_Height ==
    /\ pc = "getutxos_height"
    /\ utxo' = [utxo EXCEPT !.chainHeight = Height(chainActive)]
    /\ pc' = "getutxos_tip"
    /\ UNCHANGED << world, cs_main, request, call, response, ret, looked, outcome >>

\* The reply of rest_getutxos in format rf.
UtxoReply(u, tipHash) ==
    IF u.rf = RF_JSON
    THEN OkReply(u.rf, "utxos",
                 [chainHeight |-> u.chainHeight, chaintipHash |-> tipHash,
                  bitmap |-> u.bitmapStringRepresentation, utxos |-> u.outs])
    ELSE OkReply(u.rf, "utxos",
                 [chainHeight |-> u.chainHeight, chaintipHash |-> tipHash,
                  bitmap |-> ToBlockRange(u.hits), utxos |-> u.outs])

\* ... and then chainActive.Tip()->GetBlockHash(), and writes the reply.
GetUtxos_Tip ==
    /\ pc = "getutxos_tip"
    /\ FinishHandler(Returned(UtxoReply(utxo, Tip(chainActive).hash)))
    /\ UNCHANGED << world, cs_main, request, call, utxo, looked, outcome >>

\* HTTPReq_REST has returned to the loop that serves the connection.
ReturnToCaller ==
    /\ pc = "done"
    /\ pc' = "idle"
    /\ strURI' = ""
    /\ strRequest' = << >>
    /\ handler' = ""
    /\ strURIPart' = ""
    /\ utxo' = NoUtxo
    /\ response' = NoReply
    /\ ret' = FALSE
    /\ looked' = NoLooked
    /\ outcome' = NoOutcome
    /\ UNCHANGED << world, cs_main >>

\* A request arrives and HTTPReq_REST is called with it.
ReadRequest ==
    /\ pc = "idle"
    /\ \E r \in Requests : strURI' = r[1] /\ strRequest' = r[2]
    /\ pc' = "HTTPReq_REST"
    /\ UNCHANGED << world, cs_main, call, utxo, response, ret, looked, outcome >>

Next ==
    \/ SetRPCWarmupFinished
    \/ AcceptToMemoryPool
    \/ ConnectTip
    \/ DisconnectTip
    \/ HTTPReq_REST
    \/ Handle_rest_tx
    \/ Handle_rest_block_notxdetails
    \/ Handle_rest_block_extended
    \/ Handle_rest_chaininfo
    \/ Handle_rest_headers
    \/ Handle_rest_name
    \/ Handler_Lock
    \/ Handler_Read
    \/ Handler_Reply
    \/ GetUtxos_Input
    \/ GetUtxos_Lock
    \/ GetUtxos_Loop
    \/ GetUtxos_Unlock
    \/ GetUtxos_Height
    \/ GetUtxos_Tip
    \/ ReturnToCaller
    \/ ReadRequest

Spec == Init /\ [][Next]_vars

\* ------------------------------------------------------------ properties

\* The request is a UTXO query that got a success response.
UtxoSuccess ==
    /\ pc = "done"
    /\ handler = "rest_getutxos"
    /\ response.status = HTTP_OK

\* The loop of rest_getutxos is over and the locks are still held: the
\* chain state and the mempool are the ones the outpoints were looked up in.
LoopDone ==
    /\ pc = "getutxos_loop"
    /\ utxo.i = Len(utxo.vOutPoints)

\* The outpoints the request resolves to.
Resolved == ResolveInput(strURIPart, strRequest).vOutPoints

BitChars(str) == \A k \in 1..Len(str) : CharAt(str, k) \in {"0", "1"}

\* The bitset, the bitmap string and the bitmap of the reply have n bits.
BitmapOf(n) ==
    /\ Len(utxo.vOutPoints) = n
    /\ Len(utxo.hits) = n
    /\ Len(utxo.bitmapStringRepresentation) = n
    /\ BitChars(utxo.bitmapStringRepresentation)
    /\ response.body.rf = RF_JSON =>
          /\ Len(response.body.value.bitmap) = n
          /\ BitChars(response.body.value.bitmap)
    /\ response.body.rf # RF_JSON =>
          Len(response.body.value.bitmap) = (n + 7) \div 8

\* C1: a UTXO query that succeeds with N resolved outpoints has a hit bitset
\* of N bits and a bitmap string of N characters, each '0' or '1', whatever
\* the number of hits; the JSON reply carries that string, the binary and hex
\* replies the bitset packed into ceil(N / 8) bytes.
C1_BitmapHasOneBitPerOutPoint == UtxoSuccess => BitmapOf(Len(Resolved))

\* A JSON reply for three outpoints of which some are hits and some are not.
C1_Witness ==
    /\ UtxoSuccess
    /\ response.body.rf = RF_JSON
    /\ Len(Resolved) = 3
    /\ \E j, k \in 1..Len(utxo.hits) : utxo.hits[j] /\ ~utxo.hits[k]

\* C2: the height and the tip hash of a UTXO reply are the height and the
\* tip of the chain state the outpoints were looked up against.
C2_HeightAndTipOfTheLookup ==
    UtxoSuccess =>
        /\ response.body.value.chainHeight = looked.height
        /\ response.body.value.chaintipHash = looked.tip

\* An output as the chain state and the mempool define it, without the code
\* of the views: the transaction that creates it, and who spends it.
SpentOutPoints(txs) == UNION {t.vin : t \in txs}

CreatedBy(op, t) == t.hash = op.hash /\ op.n >= 0 /\ op.n < Len(t.vout)

\* The output exists in the confirmed chain state and no confirmed
\* transaction spends it.
ConfirmedUnspent(op) ==
    /\ \E t \in Confirmed(chainActive) : CreatedBy(op, t)
    /\ op \notin SpentOutPoints(Confirmed(chainActive))

\* The output is unspent in the view of the query: the view with the mempool
\* holds the confirmed and the mempool transactions, and an output is spent
\* when a confirmed or a mempool transaction spends it; the view without the
\* mempool is backed by viewDummy and holds nothing.
UnspentInView(fCheckMemPool, op) ==
    /\ fCheckMemPool
    /\ \E t \in Confirmed(chainActive) \cup mempool : CreatedBy(op, t)
    /\ op \notin SpentOutPoints(Confirmed(chainActive) \cup mempool)

CoinRecordOf(op) ==
    LET t == CHOOSE t \in Txs : t.hash = op.hash
    IN [nTxVer |-> t.nVersion,
        nHeight |-> IF t \in mempool THEN MEMPOOL_HEIGHT ELSE HeightOfTx(chainActive, t),
        out |-> t.vout[op.n + 1]]

\* The CoinRecords of the first k outpoints, one per unspent outpoint, in order.
RECURSIVE ExpectedOuts(_)
ExpectedOuts(k) ==
    IF k = 0 THEN << >>
    ELSE IF UnspentInView(utxo.fCheckMemPool, utxo.vOutPoints[k])
    THEN Append(ExpectedOuts(k - 1), CoinRecordOf(utxo.vOutPoints[k]))
    ELSE ExpectedOuts(k - 1)

\* C3: when the loop is over, bit k is set exactly when outpoint k is found in
\* the view with its output present and unspent, and the hit list holds one
\* CoinRecord per set bit, in the order of the set bits, repeated outpoints
\* included.
C3_BitsAndCoinRecords ==
    LoopDone =>
        /\ \A k \in 1..Len(utxo.vOutPoints) :
              utxo.hits[k] <=> UnspentInView(utxo.fCheckMemPool, utxo.vOutPoints[k])
        /\ utxo.outs = ExpectedOuts(Len(utxo.vOutPoints))
        /\ Len(utxo.outs) = Cardinality({k \in 1..Len(utxo.hits) : utxo.hits[k]})
        /\ Len(utxo.outs) <= Len(utxo.vOutPoints)

\* The same outpoint twice, both hits, with a miss between them.
C3_Witness ==
    /\ LoopDone
    /\ \E j, k, m \in 1..Len(utxo.vOutPoints) :
          /\ j < m /\ m < k
          /\ utxo.vOutPoints[j] = utxo.vOutPoints[k]
          /\ utxo.hits[j] /\ utxo.hits[k] /\ ~utxo.hits[m]
    /\ Len(utxo.outs) = 2

\* C4: without check-mempool, an outpoint whose output is present and unspent
\* in the confirmed chain state is reported as a hit.
C4_ConfirmedUnspentIsAHit ==
    (LoopDone /\ ~utxo.fCheckMemPool) =>
        \A k \in 1..Len(utxo.vOutPoints) :
            ConfirmedUnspent(utxo.vOutPoints[k]) => utxo.hits[k]

\* C5: with check-mempool, an outpoint that a mempool transaction spends is
\* never a hit and gets no CoinRecord, also when the confirmed chain state
\* still shows it unspent; an output that a mempool transaction creates and
\* no transaction spends is a hit.
C5_MempoolSpendsAreMisses ==
    (LoopDone /\ utxo.fCheckMemPool) =>
        /\ \A k \in 1..Len(utxo.vOutPoints) :
              /\ utxo.vOutPoints[k] \in SpentOutPoints(mempool) => ~utxo.hits[k]
              /\ ( /\ \E t \in mempool : CreatedBy(utxo.vOutPoints[k], t)
                   /\ utxo.vOutPoints[k] \notin SpentOutPoints(mempool) )
                   => utxo.hits[k]
        /\ Len(utxo.outs) = Cardinality({k \in 1..Len(utxo.hits) : utxo.hits[k]})

\* aa-0 is unspent in the confirmed chain state and spent by the mempool
\* transaction bb, whose own output bb-0 exists in the mempool only.
C5_Witness ==
    /\ LoopDone /\ utxo.fCheckMemPool
    /\ \E j, k \in 1..Len(utxo.vOutPoints) :
          /\ utxo.vOutPoints[j] \in SpentOutPoints(mempool)
          /\ ConfirmedUnspent(utxo.vOutPoints[j])
          /\ ~utxo.hits[j]
          /\ \E t \in mempool : CreatedBy(utxo.vOutPoints[k], t)
          /\ utxo.hits[k]

\* rest_getutxos was called and is past its input side.
PastInput == handler = "rest_getutxos" /\ pc # "rest_getutxos"

\* The outpoints that the URI of the request carries.
UriOutPoints ==
    LET uriParts == UriParts(ParseDataFormat(strURIPart).param)
    IN IF Len(uriParts) = 0 THEN << >> ELSE UriChannel(uriParts).vOutPoints

KnownFormat == ParseDataFormat(strURIPart).rf \in {RF_BINARY, RF_HEX, RF_JSON}

\* C6: a UTXO query with outpoints in the URI and a non-empty body ends in an
\* internal-error response, in every format and for every body; it does not
\* go on to the lookup.
C6_BothChannelsRejected ==
    (PastInput /\ KnownFormat /\ Len(UriOutPoints) > 0 /\ Len(strRequest) > 0) =>
        /\ pc = "done"
        /\ response.status = HTTP_INTERNAL_SERVER_ERROR

\* C7: a UTXO query that resolves to no outpoint ends in an error response
\* and does not go on to the locks and the lookup.
C7_EmptyQueryFails ==
    (PastInput /\ Len(Resolved) = 0) =>
        /\ pc = "done"
        /\ response.status # HTTP_OK

\* The request uses one input channel, not both.
OneChannel == ~(Len(UriOutPoints) > 0 /\ Len(strRequest) > 0)

LimitMessage(tried) ==
    "Error: max outpoints exceeded (max: 15, tried: " \o DecStr(tried) \o ")"

\* The reply to a query that resolved to n outpoints on one channel.
LimitApplied(n) ==
    /\ (n > 15 /\ OneChannel) =>
          /\ response.status = HTTP_INTERNAL_SERVER_ERROR
          /\ response.body = LimitMessage(n) \o "\r\n"
          /\ utxo = NoUtxo
          /\ looked = NoLooked
    /\ (n = 15 /\ OneChannel) =>
          /\ response.status = HTTP_OK
          /\ Len(utxo.vOutPoints) = 15
          /\ utxo.i = 15

\* C8: the locks are taken and the lookup is made for the resolved outpoints
\* of the request and for at most 15 of them; a query of more than 15
\* outpoints on one channel ends in an internal-error response whose message
\* names max 15 and the number tried, with nothing looked up; a query of
\* exactly 15 outpoints passes the limit check and is answered.
C8_LimitOf15OutPoints ==
    /\ pc \in {"getutxos_lock", "getutxos_loop", "getutxos_height", "getutxos_tip"} =>
          Len(utxo.vOutPoints) <= 15
    /\ cs_main => Len(utxo.vOutPoints) <= 15
    /\ pc = "getutxos_lock" => utxo.vOutPoints = Resolved
    /\ (pc = "done" /\ handler = "rest_getutxos") => LimitApplied(Len(Resolved))

\* Sixteen outpoints are rejected with the message of the limit.
C8_Witness ==
    /\ pc = "done"
    /\ handler = "rest_getutxos"
    /\ Len(Resolved) = 16
    /\ response.status = HTTP_INTERNAL_SERVER_ERROR
    /\ response.body = "Error: max outpoints exceeded (max: 15, tried: 16)\r\n"

\* p is a literal prefix of path.
PrefixOf(p, path) == Len(p) <= Len(path) /\ SubstrTo(path, Len(p)) = p

AnyPrefixMatches == \E i \in 1..Len(uri_prefixes) : PrefixOf(uri_prefixes[i].prefix, strURI)

NotFoundReply == [status |-> HTTP_NOT_FOUND, contentType |-> "HTTPError", body |-> ""]

\* HTTPReq_REST is past its warm-up check and its loop over the table.
Dispatched == pc \notin {"idle", "HTTPReq_REST"} /\ ~fWarmup

\* C9: the handler called is the one of the first entry of the table whose
\* prefix is a prefix of the path, and it gets the path without that prefix;
\* a path that starts with /rest/block/notxdetails/ goes to
\* rest_block_notxdetails, never to the handler of /rest/block/; a path that
\* no prefix matches gets the not-found reply and no handler is called.
C9_FirstMatchingPrefix ==
    /\ handler # "" =>
          \E i \in 1..Len(uri_prefixes) :
              /\ PrefixOf(uri_prefixes[i].prefix, strURI)
              /\ \A j \in 1..(i - 1) : ~PrefixOf(uri_prefixes[j].prefix, strURI)
              /\ handler = uri_prefixes[i].handler
              /\ uri_prefixes[i].prefix \o strURIPart = strURI
    /\ (Dispatched /\ PrefixOf("/rest/block/notxdetails/", strURI)) =>
          handler = "rest_block_notxdetails"
    /\ (Dispatched /\ PrefixOf("/rest/block/", strURI)
                   /\ ~PrefixOf("/rest/block/notxdetails/", strURI)) =>
          handler = "rest_block_extended"
    /\ (Dispatched /\ AnyPrefixMatches) => handler # ""
    /\ (Dispatched /\ ~AnyPrefixMatches) =>
          /\ pc = "done"
          /\ handler = ""
          /\ response = NotFoundReply
    /\ pc \notin {"idle", "HTTPReq_REST", "done"} =>
          \/ pc = handler
          \/ handler = "rest_getutxos"
          \/ pc \in {"handler_lock", "handler_read", "handler_reply"}

\* A path under /rest/block/notxdetails/ is with rest_block_notxdetails, which
\* got what follows the prefix.
C9_Witness ==
    /\ pc = "rest_block_notxdetails"
    /\ handler = "rest_block_notxdetails"
    /\ PrefixOf("/rest/block/", strURI)
    /\ "/rest/block/notxdetails/" \o strURIPart = strURI
    /\ Len(strURIPart) > 0

\* The RestErr that the handler of the request throws in the current chain
\* state and mempool, NoErr when it returns.
ThrownByHandler ==
    IF handler = "rest_tx" THEN rest_tx(strURIPart, chainActive, mempool).err
    ELSE IF handler = "rest_block_notxdetails"
    THEN rest_block_notxdetails(strURIPart, mapBlockIndex).err
    ELSE IF handler = "rest_block_extended"
    THEN rest_block_extended(strURIPart, mapBlockIndex).err
    ELSE IF handler = "rest_chaininfo" THEN rest_chaininfo(strURIPart, chainActive).err
    ELSE IF handler = "rest_headers"
    THEN rest_headers(strURIPart, chainActive, mapBlockIndex).err
    ELSE IF handler = "rest_name" THEN rest_name(strURIPart).err
    ELSE ResolveInput(strURIPart, strRequest).err

\* The text/plain reply for an error of the given status and message.
Rendered(status, message) ==
    [status |-> status, contentType |-> "text/plain", body |-> message \o "\r\n"]

\* C10 as stated: HTTPReq_REST returns false, which ends the keep-alive loop,
\* for a dispatch miss only; after a RestErr it returns true.
C10_OnlyTheMissEndsTheLoop ==
    pc = "done" => (ret = FALSE <=> (~fWarmup /\ handler = ""))

\* C10: every RestErr, of the warm-up check or of a handler, is caught in
\* HTTPReq_REST and written as a text/plain reply with the status and the
\* message of the error, and HTTPReq_REST then returns false, as it does
\* after a dispatch miss; it returns true exactly when the handler returned,
\* which is with a reply of status 200.
C10_ErrorsAreRenderedAndReturnFalse ==
    pc = "done" =>
        /\ fWarmup =>
              /\ response = Rendered(HTTP_SERVICE_UNAVAILABLE,
                                     "Service temporarily unavailable: warming up")
              /\ ret = FALSE
        /\ (~fWarmup /\ handler # "" /\ Threw(ThrownByHandler)) =>
              /\ response = Rendered(ThrownByHandler.status, ThrownByHandler.message)
              /\ ret = FALSE
        /\ (~fWarmup /\ handler # "" /\ ~Threw(ThrownByHandler)) =>
              /\ response.status = HTTP_OK
              /\ ret = TRUE
        /\ (~fWarmup /\ handler = "") =>
              /\ response = NotFoundReply
              /\ ret = FALSE
        /\ ret = TRUE <=> response.status = HTTP_OK

\* A handler threw a bad-request error: the text/plain reply carries status
\* 400 and HTTPReq_REST returned false.
C10_Witness ==
    /\ pc = "done"
    /\ handler \in {"rest_tx", "rest_block_extended", "rest_headers"}
    /\ Threw(ThrownByHandler)
    /\ response.status = HTTP_BAD_REQUEST
    /\ response.contentType = "text/plain"
    /\ ret = FALSE

\* The positions (1-based) of the dots of a path segment.
Dots(seg) == {k \in 1..Len(seg) : CharAt(seg, k) = "."}

LastDot(seg) == CHOOSE k \in Dots(seg) : \A j \in Dots(seg) : j <= k

\* What is before and what is after the last dot of a segment that has one.
BeforeLastDot(seg) == IF LastDot(seg) = 1 THEN "" ELSE SubSeq(seg, 1, LastDot(seg) - 1)

AfterLastDot(seg) ==
    IF LastDot(seg) = Len(seg) THEN "" ELSE SubSeq(seg, LastDot(seg) + 1, Len(seg))

FormatNamed(suffix) ==
    IF suffix = "bin" THEN RF_BINARY
    ELSE IF suffix = "hex" THEN RF_HEX
    ELSE IF suffix = "json" THEN RF_JSON
    ELSE RF_UNDEF

\* The parameter and the format of a path segment, as the contract states them.
ExpectedFormat(seg) ==
    IF Dots(seg) = {} THEN [param |-> seg, rf |-> RF_UNDEF]
    ELSE [param |-> BeforeLastDot(seg), rf |-> FormatNamed(AfterLastDot(seg))]

\* C11: for the path segment that a handler gets, ParseDataFormat gives the
\* segment itself and the undefined format when it has no '.', and otherwise
\* what is before the last '.' with the format that the text after it names
\* exactly ("bin", "hex", "json"), undefined for any other text, the empty one
\* included; it always gives a result, and a success reply is in that format.
C11_ParseDataFormat ==
    handler # "" =>
        /\ ParseDataFormat(strURIPart) = ExpectedFormat(strURIPart)
        /\ ParseDataFormat(strURIPart).rf \in {RF_UNDEF, RF_BINARY, RF_HEX, RF_JSON}
        /\ (pc = "done" /\ response.status = HTTP_OK) =>
              response.body.rf = ExpectedFormat(strURIPart).rf
        /\ (pc = "done" /\ ExpectedFormat(strURIPart).rf = RF_UNDEF) =>
              response.status # HTTP_OK

\* A handler got a segment with a suffix that names no format: the parameter
\* is cut before the last dot and the request ends with format-not-found.
C11_Witness ==
    /\ pc = "done"
    /\ handler = "rest_name"
    /\ Dots(strURIPart) # {}
    /\ AfterLastDot(strURIPart) = "xyz"
    /\ Dots(BeforeLastDot(strURIPart)) # {}
    /\ ParseDataFormat(strURIPart) = [param |-> "a+b%20c.bin", rf |-> RF_UNDEF]
    /\ response.status = HTTP_NOT_FOUND

\* The heights of the active chain whose block has the given hash.
HeightsOf(hash) == {k \in 0..Height(chainActive) : chainActive[k + 1].hash = hash}

\* The hashes of the first count blocks of the active chain from the block
\* with the given hash on; none when the active chain has no such block.
ExpectedHeaders(count, hash) ==
    IF HeightsOf(hash) = {} THEN << >>
    ELSE LET k == CHOOSE k \in HeightsOf(hash) : TRUE
             left == Height(chainActive) - k + 1
         IN [j \in 1..(IF count < left THEN count ELSE left) |-> chainActive[k + j].hash]

\* The reply of rest_headers to the count text, the count and the hash text
\* of a path of two parts, in format rf.
HeadersReply(countStr, count, hashStr, rf) ==
    /\ (count < 1 \/ count > 2000) =>
          response = Rendered(HTTP_BAD_REQUEST, "Header count out of range: " \o countStr)
    /\ (count >= 1 /\ count <= 2000 /\ ParseHashStr(hashStr).ok /\ rf \in {RF_BINARY, RF_HEX}) =>
          response.status = HTTP_OK
    /\ response.status = HTTP_OK =>
          /\ count >= 1 /\ count <= 2000
          /\ response.body.what = "headers"
          /\ response.body.value = ExpectedHeaders(count, ParseHashStr(hashStr).v)
          /\ Len(response.body.value) <= count
          /\ Len(response.body.value) <= Height(chainActive) + 1

HeadersPathReply(path, rf) ==
    IF Len(path) = 2
    THEN HeadersReply(path[1], Strtol(path[1]), path[2], rf)
    ELSE response.status = HTTP_BAD_REQUEST

\* C12: rest_headers answers a count below 1 or above 2000 with bad-request;
\* for a count c in 1..2000 and a hash h, in binary or hex format, it returns
\* the headers of the blocks of the active chain from the block with hash h
\* on, in chain order: min(c, blocks from h to the tip) of them, none when the
\* active chain has no block h.
C12_HeadersCountAndWalk ==
    (pc = "done" /\ handler = "rest_headers") =>
        HeadersPathReply(Split(ParseDataFormat(strURIPart).param),
                         ParseDataFormat(strURIPart).rf)

\* One header is asked for from the genesis block of a chain of two blocks
\* or more: one header is returned, that of the genesis block.
C12_Witness ==
    /\ pc = "done"
    /\ handler = "rest_headers"
    /\ response.status = HTTP_OK
    /\ Height(chainActive) >= 1
    /\ Strtol(Split(ParseDataFormat(strURIPart).param)[1]) = 1
    /\ response.body.value = << chainActive[1].hash >>

\* C13: a handler that is about to read its store (block index and active
\* chain, block storage, transaction lookup, chain info, name index) holds
\* cs_main, and it does not hold it any more when the reply is encoded and
\* written.
C13_StoresReadUnderLock ==
    /\ pc = "handler_read" => cs_main
    /\ pc \in {"handler_reply", "done"} => ~cs_main

====
